---------------------------- MODULE Spec2Model ----------------------------
(***************************************************************************)
(* Blackjack round engine of mathkraemer/Blackjack: DeckService            *)
(* (createDeck, shuffleDeck, getCardValue, dealCards) and BlackjackService *)
(* (startNewGame, calculateHandScore, playerHit, playerStand,              *)
(* determineGameResult), GameService (createNewGame, getGameById,          *)
(* playerHit, playerStand, finalizeGame), which keeps the game's row of    *)
(* the Games table and the user's row of UserStats, and the game router.   *)
(*                                                                         *)
(* JavaScript arrays are modelled as sequences; JS index i is TLA+ index   *)
(* i + 1.  The deck and the two hands are array objects shared by every    *)
(* snapshot of a round (playerHit/playerStand mutate them in place and     *)
(* copy only the scalar fields with the object spread), so the model keeps *)
(* one value for each array and one record for the scalar fields of the    *)
(* latest snapshot.                                                        *)
(***************************************************************************)
EXTENDS Integers, Sequences, FiniteSets, TLC

VARIABLES
    deck,        \* gameState.deck       : the array backing the round's deals
    playerHand,  \* gameState.playerHand : array shared by all snapshots
    dealerHand,  \* gameState.dealerHand : array shared by all snapshots
    gameState,   \* scalar fields of the snapshot the caller holds
    game,        \* the game's row of the Games table
    userStats,   \* the user's row of the UserStats table
    req,         \* the HTTP request the game router is given
    last         \* history: the last call, its input, what it returned or threw

vars == <<deck, playerHand, dealerHand, gameState, game, userStats, req, last>>

\* what BlackjackService and DeckService never touch
stored == <<game, userStats, req>>

-----------------------------------------------------------------------------
(* Bounds of the model *)

\* seeds of the random source tried by startNewGame
MaxSeed == 48
\* hits allowed on an exhausted deck (each appends one more undefined entry)
MaxFailedHits == 1
\* longest hand given to calculateHandScore on its own
MaxHandLen == 4
\* largest count given to dealCards on its own
MaxCount == 3
\* the longest array shuffleDeck is called with on its own
MaxShuffleLen == 5
\* finalizeGame calls followed for one user (total_games counts them)
MaxTotalGames == 3

-----------------------------------------------------------------------------
(* Values *)

\* what deck.splice(0, 1)[0] yields on an empty deck
Undef == [undefined |-> TRUE]

IsUndef(card) == "undefined" \in DOMAIN card

\* the JavaScript value null
Null == [null |-> TRUE]

Min(a, b) == IF a < b THEN a ELSE b

-----------------------------------------------------------------------------
(* DeckService *)

suits == <<"hearts", "diamonds", "clubs", "spades">>

ranks == <<"A", "2", "3", "4", "5", "6", "7", "8", "9", "10", "J", "Q", "K">>

\* the characters of a rank string
Chars(rank) == IF rank = "10" THEN <<"1", "0">> ELSE <<rank>>

IsDigit(c) == c \in {"0", "1", "2", "3", "4", "5", "6", "7", "8", "9"}

DigitValue(c) ==
    CASE c = "0" -> 0 [] c = "1" -> 1 [] c = "2" -> 2 [] c = "3" -> 3
      [] c = "4" -> 4 [] c = "5" -> 5 [] c = "6" -> 6 [] c = "7" -> 7
      [] c = "8" -> 8 [] c = "9" -> 9

RECURSIVE parseDigits(_, _, _)
parseDigits(chars, k, acc) ==
    IF k > Len(chars) \/ ~IsDigit(chars[k])
    THEN acc
    ELSE parseDigits(chars, k + 1, 10 * acc + DigitValue(chars[k]))

\* parseInt(rank): the leading decimal digits of the string (the ranks that
\* reach it are "2".."10", all starting with a digit)
parseInt(rank) == parseDigits(Chars(rank), 1, 0)

getCardValue(rank) ==
    IF rank = "A" THEN 11
    ELSE IF rank \in {"J", "Q", "K"} THEN 10
    ELSE parseInt(rank)

\* the inner loop of createDeck: the cards of one suit pushed up to rank r
RECURSIVE pushRanks(_, _, _)
pushRanks(d, suit, r) ==
    IF r = 0 THEN d
    ELSE Append(pushRanks(d, suit, r - 1),
                [suit |-> suit, rank |-> ranks[r], value |-> getCardValue(ranks[r])])

\* the outer loop of createDeck: the suits pushed up to suit s
RECURSIVE pushSuits(_)
pushSuits(s) ==
    IF s = 0 THEN <<>>
    ELSE pushRanks(pushSuits(s - 1), suits[s], Len(ranks))

\* the deck createDeck builds before it shuffles: suits outer, ranks inner
orderedDeck == pushSuits(Len(suits))

\* swap written as the single assignment shuffled[i] = shuffled[j]
swapOverwrites(shuffled, i, j) ==
    [shuffled EXCEPT ![i + 1] = shuffled[j + 1]]

\* [shuffled[i], shuffled[j]] = [shuffled[j], shuffled[i]]   (JS indices)
swap(shuffled, i, j) ==
    [shuffled EXCEPT ![i + 1] = shuffled[j + 1], ![j + 1] = shuffled[i + 1]]

\* the array after the iterations i = length - 1 down to i = from
RECURSIVE shuffleLoop(_, _, _)
shuffleLoop(d, from, js) ==
    IF from > Len(d) - 1
    THEN d
    ELSE swap(shuffleLoop(d, from + 1, js), from, js[from])

\* shuffleDeck with the loop running while i > 1: index 1 is never swapped
shuffleDeckStopsEarly(d, js) == shuffleLoop(d, 2, js)

\* shuffleDeck(deck) where js[i] is the value of
\* Math.floor(Math.random() * (i + 1)) drawn in the iteration with index i
shuffleDeck(d, js) == shuffleLoop(d, 1, js)

\* The random source.  Math.random() is modelled by a Lehmer generator
\* (x' = 75 x mod 65537, value x / 65537 in [0, 1)); a run is fixed by its
\* seed, and the seeds are the model's input.
nextRandom(x) == (75 * x) % 65537

\* the state of the generator after k calls of Math.random()
RECURSIVE randomAfter(_, _)
randomAfter(seed, k) ==
    IF k = 0 THEN seed ELSE nextRandom(randomAfter(seed, k - 1))

\* the choices j of one run of shuffleDeck on n cards: iteration i is the
\* (n - i)-th call, j = Math.floor(Math.random() * (i + 1))
randomChoices(seed, n) ==
    [i \in 1..(n - 1) |-> (randomAfter(seed, n - i) * (i + 1)) \div 65537]

\* createDeck() in a run whose random source starts at seed
createDeckFrom(seed) ==
    shuffleDeck(orderedDeck, randomChoices(seed, Len(orderedDeck)))

\* the decks of the runs the model tries, computed once
createdDecks == [seed \in 1..MaxSeed |-> createDeckFrom(seed)]

createDeck(seed) == createdDecks[seed]

\* dealCards written with deck.slice(0, count): the deck keeps its cards
dealCardsSlices(d, count) ==
    [cards |-> SubSeq(d, 1, Min(count, Len(d))),
     deck  |-> d]

\* dealCards written with deck.splice(-count): the cards come off the end
dealCardsFromEnd(d, count) ==
    [cards |-> SubSeq(d, Len(d) - Min(count, Len(d)) + 1, Len(d)),
     deck  |-> SubSeq(d, 1, Len(d) - Min(count, Len(d)))]

\* deck.splice(0, count): the removed front and what stays in the array
dealCards(d, count) ==
    [cards |-> SubSeq(d, 1, Min(count, Len(d))),
     deck  |-> SubSeq(d, Min(count, Len(d)) + 1, Len(d))]

\* dealCards(deck, 1)[0]
firstOrUndef(cards) == IF Len(cards) = 0 THEN Undef ELSE cards[1]

-----------------------------------------------------------------------------
(* BlackjackService *)

DEALER_STAND_THRESHOLD == 17

\* for (const card of hand) score += card.value      (the first k cards)
RECURSIVE sumValues(_, _)
sumValues(hand, k) ==
    IF k = 0 THEN 0 ELSE sumValues(hand, k - 1) + hand[k].value

\* for (const card of hand) if (card.rank === 'A') aceCount++
RECURSIVE countAces(_, _)
countAces(hand, k) ==
    IF k = 0 THEN 0
    ELSE countAces(hand, k - 1) + (IF hand[k].rank = "A" THEN 1 ELSE 0)

\* the adjustment written with if in place of while: one Ace at most
adjustAcesOnce(score, aceCount) ==
    IF score > 21 /\ aceCount > 0 THEN score - 10 ELSE score

\* while (score > 21 && aceCount > 0) { score -= 10; aceCount--; }
RECURSIVE adjustAces(_, _)
adjustAces(score, aceCount) ==
    IF score > 21 /\ aceCount > 0
    THEN adjustAces(score - 10, aceCount - 1)
    ELSE score

calculateHandScore(hand) ==
    adjustAces(sumValues(hand, Len(hand)), countAces(hand, Len(hand)))

\* card.value of an undefined entry: calculateHandScore throws a TypeError
scoreThrows(hand) == \E k \in 1..Len(hand) : IsUndef(hand[k])

\* the scalar fields of a snapshot
snapshot(playerScore, dealerScore, isPlayerTurn, isGameOver, gameStatus) ==
    [playerScore  |-> playerScore,
     dealerScore  |-> dealerScore,
     isPlayerTurn |-> isPlayerTurn,
     isGameOver   |-> isGameOver,
     gameStatus   |-> gameStatus]

noRound == snapshot(0, 0, FALSE, FALSE, "none")

\* everything reachable from the snapshot the caller holds, copied
deepCopy == [deck |-> deck, playerHand |-> playerHand,
             dealerHand |-> dealerHand, gameState |-> gameState]

noCopy == [deck |-> <<>>, playerHand |-> <<>>, dealerHand |-> <<>>,
           gameState |-> noRound]

\* the record of a call: its name, what it threw, its input, the deck
\* createDeck gave it, the dealer's score before each draw (for dealCards:
\* the count), its return value
call(op, err, pre, created, drawnAt, ret) ==
    [op |-> op, err |-> err, pre |-> pre, created |-> created,
     drawnAt |-> drawnAt, ret |-> ret]

noCall == call("init", "none", noCopy, <<>>, <<>>, 0)

-----------------------------------------------------------------------------
(* The Games table: JSON columns for the hands, INTEGER columns for the    *)
(* scores, the result column                                               *)

DigitChar(n) ==
    CASE n = 0 -> "0" [] n = 1 -> "1" [] n = 2 -> "2" [] n = 3 -> "3"
      [] n = 4 -> "4" [] n = 5 -> "5" [] n = 6 -> "6" [] n = 7 -> "7"
      [] n = 8 -> "8" [] n = 9 -> "9"

\* the decimal text of a number, as JSON.stringify writes it
RECURSIVE toDigits(_)
toDigits(n) ==
    IF n < 10 THEN <<DigitChar(n)>>
    ELSE Append(toDigits(n \div 10), DigitChar(n % 10))

\* JSON.stringify of one array entry: undefined is written as null
jsonOfCard(card) ==
    IF IsUndef(card)
    THEN [json |-> "null"]
    ELSE [json |-> "object", suit |-> card.suit, rank |-> card.rank,
          value |-> toDigits(card.value)]

\* JSON.stringify(hand): what a JSON column stores
jsonStringify(hand) == [k \in 1..Len(hand) |-> jsonOfCard(hand[k])]

cardOfJson(j) ==
    IF j.json = "null"
    THEN Null
    ELSE [suit |-> j.suit, rank |-> j.rank, value |-> parseDigits(j.value, 1, 0)]

\* JSON.parse(text): what reading a JSON column gives
jsonParse(text) == [k \in 1..Len(text) |-> cardOfJson(text[k])]

noGame == [exists |-> FALSE]

\* the row written by Game.create / Game.update
gameRow(pHand, dHand, pScore, dScore, result) ==
    [exists       |-> TRUE,
     player_hand  |-> jsonStringify(pHand),
     dealer_hand  |-> jsonStringify(dHand),
     player_score |-> pScore,
     dealer_score |-> dScore,
     result       |-> result]

\* determineGameResult with player_bust falling into the win cases
determineGameResultBustWins(gameStatus) ==
    CASE gameStatus = "dealer_win" -> "loss"
      [] gameStatus \in {"player_bust", "dealer_bust", "player_win"} -> "win"
      [] gameStatus = "tie" -> "tie"
      [] OTHER -> "null"

\* BlackjackService.determineGameResult.  Where a value is a string, null
\* or undefined, null is written "null" and undefined "undefined", so that
\* results compare with each other.
determineGameResult(gameStatus) ==
    CASE gameStatus \in {"player_bust", "dealer_win"} -> "loss"
      [] gameStatus \in {"dealer_bust", "player_win"} -> "win"
      [] gameStatus = "tie" -> "tie"
      [] OTHER -> "null"

\* GameService.createNewGame: the row stored for a new round
createdRow(pHand, dHand, gs) ==
    gameRow(pHand, dHand, gs.playerScore, gs.dealerScore, "active")

\* GameService.finalizeGame: the row after Game.update
finalizedRow(pHand, dHand, gs) ==
    gameRow(pHand, dHand, gs.playerScore, gs.dealerScore,
            determineGameResult(gs.gameStatus))

\* the user has no row of UserStats yet
noStats == [exists |-> FALSE]

\* UserStats.findOrCreate({ where: { user_id }, defaults: { ...zeros } })
findOrCreate(stats) ==
    IF stats.exists
    THEN stats
    ELSE [exists |-> TRUE, total_games |-> 0, wins |-> 0, losses |-> 0,
          ties |-> 0, win_percentage |-> [num |-> 0, den |-> 1]]

\* finalizeGame's update of the row: total_games += 1, then wins += 1 for
\* 'win', losses += 1 for 'loss', ties += 1 for anything else;
\* win_percentage = (wins / total_games) * 100, kept as a fraction
countGame(stats, result) ==
    LET row    == findOrCreate(stats)
        total  == row.total_games + 1
        wins   == row.wins + (IF result = "win" THEN 1 ELSE 0)
        losses == row.losses + (IF result # "win" /\ result = "loss" THEN 1 ELSE 0)
        ties   == row.ties + (IF result # "win" /\ result # "loss" THEN 1 ELSE 0)
    IN  [exists |-> TRUE, total_games |-> total, wins |-> wins,
         losses |-> losses, ties |-> ties,
         win_percentage |-> [num |-> wins * 100, den |-> total]]

\* no request has been given to the router
noRequest == [method |-> "none", path |-> <<>>]

\* res.json({ success, data, message }): the data of a response whose data
\* is a game state, as the client receives it
clientData(round) ==
    [deck         |-> jsonStringify(round.deck),
     playerHand   |-> jsonStringify(round.playerHand),
     dealerHand   |-> jsonStringify(round.dealerHand),
     playerScore  |-> round.gameState.playerScore,
     dealerScore  |-> round.gameState.dealerScore,
     isPlayerTurn |-> round.gameState.isPlayerTurn,
     isGameOver   |-> round.gameState.isGameOver,
     gameStatus   |-> round.gameState.gameStatus]

\* GameService.getGameById for a row that exists
getGameById(row) ==
    [playerHand  |-> jsonParse(row.player_hand),
     dealerHand  |-> jsonParse(row.dealer_hand),
     playerScore |-> row.player_score,
     dealerScore |-> row.dealer_score,
     result      |-> row.result]

-----------------------------------------------------------------------------
(* The calls *)

Init ==
    /\ deck = <<>>
    /\ playerHand = <<>>
    /\ dealerHand = <<>>
    /\ gameState = noRound
    /\ game = noGame
    /\ userStats = noStats
    /\ req = noRequest
    /\ last = noCall

\* startNewGame dealing the dealer's two cards before the player's
startNewGameDealerFirst(seed) ==
    LET created == createDeck(seed)
        first   == dealCards(created, 2)
        second  == dealCards(first.deck, 2)
    IN  /\ deck' = second.deck
        /\ playerHand' = second.cards
        /\ dealerHand' = first.cards
        /\ gameState' = snapshot(calculateHandScore(second.cards),
                                 calculateHandScore(first.cards),
                                 TRUE, FALSE, "active")
        /\ last' = call("startNewGame", "none", noCopy, created, <<>>, 0)

\* the object startNewGame returns when createDeck() returns created
newRound(created) ==
    LET first  == dealCards(created, 2)
        second == dealCards(first.deck, 2)
    IN  [deck       |-> second.deck,
         playerHand |-> first.cards,
         dealerHand |-> second.cards,
         gameState  |-> snapshot(calculateHandScore(first.cards),
                                 calculateHandScore(second.cards),
                                 TRUE, FALSE, "active")]

\* BlackjackService.startNewGame with the deck createDeck returns in the run
\* that starts at seed
startNewGame(seed) ==
    /\ deck' = newRound(createDeck(seed)).deck
    /\ playerHand' = newRound(createDeck(seed)).playerHand
    /\ dealerHand' = newRound(createDeck(seed)).dealerHand
    /\ gameState' = newRound(createDeck(seed)).gameState
    /\ last' = call("startNewGame", "none", noCopy, createDeck(seed), <<>>, 0)

\* startNewGame() takes no argument and reads no state: the state it returns
\* from any state is the state it returns from Init.  The model follows one
\* round, so it takes the step from Init only; the reachable states are the
\* same as with the step taken from everywhere.
StartNewGame ==
    /\ gameState.gameStatus = "none"
    /\ \E seed \in 1..MaxSeed : startNewGame(seed)
    /\ UNCHANGED stored

\* the bust check left out: no hit ends the round
bustCheckNever(playerScore) ==
    [isGameOver |-> FALSE, gameStatus |-> "active"]

\* the bust check written with >= in place of >
bustCheckAt21(playerScore) ==
    IF playerScore >= 21
    THEN [isGameOver |-> TRUE, gameStatus |-> "player_bust"]
    ELSE [isGameOver |-> FALSE, gameStatus |-> "active"]

\* let isGameOver = false; let gameStatus = 'active';
\* if (playerScore > 21) { isGameOver = true; gameStatus = 'player_bust'; }
bustCheck(playerScore) ==
    IF playerScore > 21
    THEN [isGameOver |-> TRUE, gameStatus |-> "player_bust"]
    ELSE [isGameOver |-> FALSE, gameStatus |-> "active"]

RECURSIVE undefinedCount(_, _)
undefinedCount(hand, k) ==
    IF k = 0 THEN 0
    ELSE undefinedCount(hand, k - 1) + (IF IsUndef(hand[k]) THEN 1 ELSE 0)

\* the object playerHit returns: { ...gameState, playerHand, playerScore,
\* isGameOver, gameStatus } with the bust check on the new score, made one
\* that also ends the player's turn on a bust
hitResultEndsTurn(gs, playerScore) ==
    [gs EXCEPT !.playerScore  = playerScore,
               !.isPlayerTurn = ~bustCheck(playerScore).isGameOver,
               !.isGameOver   = bustCheck(playerScore).isGameOver,
               !.gameStatus   = bustCheck(playerScore).gameStatus]

\* the object playerHit returns with gameStatus left out of it: the status
\* of the input stays
hitResultKeepsStatus(gs, playerScore) ==
    [gs EXCEPT !.playerScore = playerScore,
               !.isGameOver  = bustCheck(playerScore).isGameOver]

\* the object playerHit returns: { ...gameState, playerHand, playerScore,
\* isGameOver, gameStatus } with the bust check on the new score
hitResult(gs, playerScore) ==
    [gs EXCEPT !.playerScore = playerScore,
               !.isGameOver  = bustCheck(playerScore).isGameOver,
               !.gameStatus  = bustCheck(playerScore).gameStatus]

\* BlackjackService.playerHit(gameState) on the snapshot the caller holds.
\* The deck and the hand are changed in place before the score is computed,
\* so they stay changed when calculateHandScore throws.
playerHit ==
    LET dealt   == dealCards(deck, 1)
        newCard == firstOrUndef(dealt.cards)
        hand    == Append(playerHand, newCard)
    IN  /\ gameState.gameStatus # "none"
        /\ undefinedCount(playerHand, Len(playerHand)) < MaxFailedHits
        /\ deck' = dealt.deck
        /\ playerHand' = hand
        /\ dealerHand' = dealerHand
        /\ IF scoreThrows(hand)
           THEN /\ gameState' = gameState
                /\ last' = call("playerHit", "TypeError", deepCopy, <<>>, <<>>, 0)
           ELSE /\ gameState' = hitResult(gameState, calculateHandScore(hand))
                /\ last' = call("playerHit", "none", deepCopy, <<>>, <<>>, 0)

\* the dealer loop written with <= in place of <: the dealer hits on 17
RECURSIVE dealerLoopHitsOn17(_, _, _)
dealerLoopHitsOn17(d, hand, drawnAt) ==
    IF scoreThrows(hand)
    THEN [err |-> "TypeError", deck |-> d, dealerHand |-> hand,
          dealerScore |-> 0, drawnAt |-> drawnAt]
    ELSE IF calculateHandScore(hand) <= DEALER_STAND_THRESHOLD
    THEN dealerLoopHitsOn17(dealCards(d, 1).deck,
                            Append(hand, firstOrUndef(dealCards(d, 1).cards)),
                            Append(drawnAt, calculateHandScore(hand)))
    ELSE [err |-> "none", deck |-> d, dealerHand |-> hand,
          dealerScore |-> calculateHandScore(hand), drawnAt |-> drawnAt]

\* let dealerScore = calculateHandScore(dealerHand);
\* while (dealerScore < DEALER_STAND_THRESHOLD) { deal one, push, rescore }
RECURSIVE dealerLoop(_, _, _)
dealerLoop(d, hand, drawnAt) ==
    IF scoreThrows(hand)
    THEN [err |-> "TypeError", deck |-> d, dealerHand |-> hand,
          dealerScore |-> 0, drawnAt |-> drawnAt]
    ELSE IF calculateHandScore(hand) < DEALER_STAND_THRESHOLD
    THEN dealerLoop(dealCards(d, 1).deck,
                    Append(hand, firstOrUndef(dealCards(d, 1).cards)),
                    Append(drawnAt, calculateHandScore(hand)))
    ELSE [err |-> "none", deck |-> d, dealerHand |-> hand,
          dealerScore |-> calculateHandScore(hand), drawnAt |-> drawnAt]

\* the outcome written with >= in the second test: the dealer wins ties
determineOutcomeDealerTakesTies(dealerScore, playerScore) ==
    IF dealerScore > 21 THEN "dealer_bust"
    ELSE IF dealerScore >= playerScore THEN "dealer_win"
    ELSE IF playerScore > dealerScore THEN "player_win"
    ELSE "tie"

\* // Determine game outcome
determineOutcome(dealerScore, playerScore) ==
    IF dealerScore > 21 THEN "dealer_bust"
    ELSE IF dealerScore > playerScore THEN "dealer_win"
    ELSE IF playerScore > dealerScore THEN "player_win"
    ELSE "tie"

\* the object playerStand returns: { ...gameState, dealerHand, dealerScore,
\* isPlayerTurn: false, isGameOver, gameStatus }
standResult(gs, dealerScore) ==
    [gs EXCEPT !.dealerScore  = dealerScore,
               !.isPlayerTurn = FALSE,
               !.isGameOver   = TRUE,
               !.gameStatus   = determineOutcome(dealerScore, gs.playerScore)]

\* BlackjackService.playerStand(gameState) on the snapshot the caller holds
playerStand ==
    LET loop == dealerLoop(deck, dealerHand, <<>>)
    IN  /\ gameState.gameStatus # "none"
        /\ deck' = loop.deck
        /\ dealerHand' = loop.dealerHand
        /\ playerHand' = playerHand
        /\ IF loop.err # "none"
           THEN /\ gameState' = gameState
                /\ last' = call("playerStand", loop.err, deepCopy, <<>>,
                                loop.drawnAt, 0)
           ELSE /\ gameState' = standResult(gameState, loop.dealerScore)
                /\ last' = call("playerStand", "none", deepCopy, <<>>,
                                loop.drawnAt, 0)

PlayerHit == playerHit /\ UNCHANGED stored

PlayerStand == playerStand /\ UNCHANGED stored

\* BlackjackService called directly
Next ==
    \/ StartNewGame
    \/ PlayerHit
    \/ PlayerStand

Spec == Init /\ [][Next]_vars

-----------------------------------------------------------------------------
(* A round played as the game controls allow: Hit while the round is not   *)
(* over, Stand while it is the player's turn (no stand has been made)      *)

PlayHit == ~gameState.isGameOver /\ PlayerHit

PlayStand == gameState.isPlayerTurn /\ PlayerStand

NextPlay ==
    \/ StartNewGame
    \/ PlayHit
    \/ PlayStand

SpecPlay == Init /\ [][NextPlay]_vars

-----------------------------------------------------------------------------
(* GameService: the round with the Games and UserStats rows *)

\* createNewGame: startNewGame, then Game.create with result 'active'
GameService_createNewGame ==
    /\ gameState.gameStatus = "none"
    /\ \E seed \in 1..MaxSeed : startNewGame(seed)
    /\ game' = createdRow(playerHand', dealerHand', gameState')
    /\ UNCHANGED <<userStats, req>>

\* finalizeGame(gameId, userId, updatedState): Game.update and the update of
\* the user's statistics, in one transaction
finalizeGame ==
    /\ findOrCreate(userStats).total_games < MaxTotalGames
    /\ game' = finalizedRow(playerHand', dealerHand', gameState')
    /\ userStats' = countGame(userStats, determineGameResult(gameState'.gameStatus))

\* GameService.playerHit: BlackjackService.playerHit, then finalizeGame if
\* updatedState.isGameOver; a throw of playerHit passes through
GameService_playerHit ==
    /\ playerHit
    /\ req' = req
    /\ IF last'.err = "none" /\ gameState'.isGameOver
       THEN finalizeGame
       ELSE UNCHANGED <<game, userStats>>

\* GameService.playerStand: BlackjackService.playerStand, then finalizeGame;
\* a throw of playerStand passes through
GameService_playerStand ==
    /\ playerStand
    /\ req' = req
    /\ IF last'.err = "none"
       THEN finalizeGame
       ELSE UNCHANGED <<game, userStats>>

NextGame ==
    \/ GameService_createNewGame
    \/ GameService_playerHit
    \/ GameService_playerStand

SpecGame == Init /\ [][NextGame]_vars

-----------------------------------------------------------------------------
(* The game router: routes are tried in the order they were registered *)

literal(name) == [kind |-> "literal", name |-> name]

param(name) == [kind |-> "param", name |-> name]

endpoint(method, pattern, handler) ==
    [method |-> method, pattern |-> pattern, handler |-> handler]

\* router.post('/new', ...) ... router.get('/history', ...), as registered
routes ==
    << endpoint("POST", <<literal("new")>>, "startNewGame"),
       endpoint("POST", <<param("gameId"), literal("hit")>>, "hit"),
       endpoint("POST", <<param("gameId"), literal("stand")>>, "stand"),
       endpoint("GET", <<param("gameId")>>, "getGameState"),
       endpoint("GET", <<literal("history")>>, "getGameHistory") >>

\* a path matches a pattern segment by segment; ':name' takes any segment
matches(route, r) ==
    /\ route.method = r.method
    /\ Len(route.pattern) = Len(r.path)
    /\ \A k \in 1..Len(r.path) :
           route.pattern[k].kind = "param" \/ route.pattern[k].name = r.path[k]

\* the handler of the first route that matches, none (404) if no route does
dispatch(r) ==
    IF \E k \in 1..Len(routes) : matches(routes[k], r)
    THEN routes[CHOOSE k \in 1..Len(routes) :
                    /\ matches(routes[k], r)
                    /\ \A m \in 1..(k - 1) : ~matches(routes[m], r)].handler
    ELSE "none"

methods == {"GET", "POST", "DELETE"}

segments == {"new", "history", "hit", "stand", "1", "2", "17"}

paths == {<<a>> : a \in segments} \cup {<<a, b>> : a \in segments, b \in segments}

InitRoute ==
    /\ \E method \in methods : \E path \in paths :
          req = [method |-> method, path |-> path]
    /\ deck = <<>>
    /\ playerHand = <<>>
    /\ dealerHand = <<>>
    /\ gameState = noRound
    /\ game = noGame
    /\ userStats = noStats
    /\ last = noCall

route ==
    /\ last.op = "init"
    /\ last' = call("route", "none", noCopy, <<>>, <<>>, dispatch(req))
    /\ UNCHANGED <<deck, playerHand, dealerHand, gameState, game, userStats, req>>

NextRoute == route

SpecRoute == InitRoute /\ [][NextRoute]_vars

-----------------------------------------------------------------------------
(* calculateHandScore on its own: every hand of up to MaxHandLen cards *)

\* the hand whose k-th card has rank rs[k]; cards of one rank take the suits
\* in order, so the hand is part of one deck
handOfRanks(rs) ==
    [k \in 1..Len(rs) |->
        [suit  |-> suits[Cardinality({m \in 1..k : rs[m] = rs[k]})],
         rank  |-> rs[k],
         value |-> getCardValue(rs[k])]]

rankSet == {ranks[r] : r \in 1..Len(ranks)}

InitScore ==
    /\ \E n \in 0..MaxHandLen : \E rs \in [1..n -> rankSet] :
          /\ \A r \in rankSet : Cardinality({m \in 1..n : rs[m] = r}) <= Len(suits)
          /\ playerHand = handOfRanks(rs)
    /\ deck = <<>>
    /\ dealerHand = <<>>
    /\ gameState = noRound
    /\ game = noGame
    /\ userStats = noStats
    /\ req = noRequest
    /\ last = noCall

scoreHand ==
    /\ last.op = "init"
    /\ last' = call("calculateHandScore", "none", noCopy, <<>>, <<>>,
                    calculateHandScore(playerHand))
    /\ UNCHANGED <<deck, playerHand, dealerHand, gameState, game, userStats, req>>

NextScore == scoreHand

SpecScore == InitScore /\ [][NextScore]_vars

-----------------------------------------------------------------------------
(* dealCards on its own: every deck a round can hold, counts 0..MaxCount *)

InitDeal ==
    /\ \E seed \in 1..MaxSeed : \E dealtBefore \in 0..Len(orderedDeck) :
          deck = SubSeq(createDeck(seed), dealtBefore + 1, Len(orderedDeck))
    /\ playerHand = <<>>
    /\ dealerHand = <<>>
    /\ gameState = noRound
    /\ game = noGame
    /\ userStats = noStats
    /\ req = noRequest
    /\ last = noCall

deal(count) ==
    /\ last.op = "init"
    /\ deck' = dealCards(deck, count).deck
    /\ last' = call("dealCards", "none", [noCopy EXCEPT !.deck = deck],
                    <<>>, <<count>>, dealCards(deck, count).cards)
    /\ UNCHANGED <<playerHand, dealerHand, gameState, game, userStats, req>>

Deal == \E count \in 0..MaxCount : deal(count)

NextDeal == Deal

SpecDeal == InitDeal /\ [][NextDeal]_vars

-----------------------------------------------------------------------------
(* shuffleDeck on its own: the first n cards of the ordered deck, n up to  *)
(* MaxShuffleLen, with every sequence of choices the loop can draw         *)

\* the sequences of choices of a shuffle of n cards: in the iteration with
\* index i, Math.floor(Math.random() * (i + 1)) is one of 0..i
choiceSequences(n) ==
    {js \in [1..(n - 1) -> 0..(n - 1)] : \A i \in 1..(n - 1) : js[i] <= i}

\* the input array is in deck, the choices the call will draw in last.drawnAt
InitShuffle ==
    /\ \E n \in 0..MaxShuffleLen : \E js \in choiceSequences(n) :
          /\ deck = SubSeq(orderedDeck, 1, n)
          /\ last = call("init", "none", noCopy, <<>>, js, 0)
    /\ playerHand = <<>>
    /\ dealerHand = <<>>
    /\ gameState = noRound
    /\ game = noGame
    /\ userStats = noStats
    /\ req = noRequest

\* const shuffled = [...deck]; the loop; return shuffled.  The array passed
\* in is never assigned to.
shuffle ==
    /\ last.op = "init"
    /\ last' = call("shuffleDeck", "none", [noCopy EXCEPT !.deck = deck],
                    <<>>, last.drawnAt, shuffleDeck(deck, last.drawnAt))
    /\ UNCHANGED <<deck, playerHand, dealerHand, gameState, game, userStats, req>>

NextShuffle == shuffle

SpecShuffle == InitShuffle /\ [][NextShuffle]_vars

-----------------------------------------------------------------------------
(* determineGameResult applied to the status of any state of a round *)

classify ==
    /\ last.op # "determineGameResult"
    /\ last' = call("determineGameResult", "none", noCopy, <<>>, <<>>,
                    determineGameResult(gameState.gameStatus))
    /\ UNCHANGED <<deck, playerHand, dealerHand, gameState, game, userStats, req>>

NextClassify ==
    \/ StartNewGame
    \/ PlayerHit
    \/ PlayerStand
    \/ classify

SpecClassify == Init /\ [][NextClassify]_vars

-----------------------------------------------------------------------------
(* The rules the properties are stated against, written without the code *)

\* the fixed value of a rank: Ace 11, face 10, numeral its number
FixedValue(rank) ==
    CASE rank = "A" -> 11
      [] rank = "2" -> 2 [] rank = "3" -> 3 [] rank = "4" -> 4
      [] rank = "5" -> 5 [] rank = "6" -> 6 [] rank = "7" -> 7
      [] rank = "8" -> 8 [] rank = "9" -> 9 [] rank = "10" -> 10
      [] rank = "J" -> 10 [] rank = "Q" -> 10 [] rank = "K" -> 10

AcesIn(hand) == Cardinality({k \in 1..Len(hand) : hand[k].rank = "A"})

\* the total of the hand with every Ace counted as 1
RECURSIVE HardTotal(_)
HardTotal(hand) ==
    IF hand = <<>> THEN 0
    ELSE HardTotal(Tail(hand))
         + (IF Head(hand).rank = "A" THEN 1 ELSE FixedValue(Head(hand).rank))

\* the totals obtainable by counting each Ace as 11 or as 1
Totals(hand) == {HardTotal(hand) + 10 * k : k \in 0..AcesIn(hand)}

\* the largest total not exceeding 21, or the all-Aces-as-1 total if none
BestTotal(hand) ==
    IF \E t \in Totals(hand) : t <= 21
    THEN CHOOSE t \in Totals(hand) :
             t <= 21 /\ \A u \in Totals(hand) : u <= 21 => u <= t
    ELSE HardTotal(hand)

RanksOf(hand) == [k \in 1..Len(hand) |-> hand[k].rank]

Returned(op) == last.op = op /\ last.err = "none"

\* n!
RECURSIVE Factorial(_)
Factorial(n) == IF n <= 1 THEN 1 ELSE n * Factorial(n - 1)

\* a and b hold the same elements, each as many times
SameElements(a, b) ==
    /\ Len(a) = Len(b)
    /\ \A k \in 1..Len(a) :
           Cardinality({m \in 1..Len(a) : a[m] = a[k]})
             = Cardinality({m \in 1..Len(b) : b[m] = a[k]})

\* the snapshot given to the last call as its caller finds it afterwards:
\* the scalar fields are its own, the arrays are the ones the call worked on
inputAfterCall ==
    [deck |-> deck, playerHand |-> playerHand, dealerHand |-> dealerHand,
     gameState |-> last.pre.gameState]

\* the cards of the two hands and the deck, in one sequence
AllCards == playerHand \o dealerHand \o deck

\* the 52 cards of a standard deck
StandardCards ==
    {[suit |-> suits[s], rank |-> ranks[r], value |-> FixedValue(ranks[r])] :
        s \in 1..Len(suits), r \in 1..Len(ranks)}

\* the created deck of a round that differs from this one in the dealer's
\* first card and the last card of the deck only: the two are exchanged
hiddenVariant(created) == swap(created, 2, Len(created) - 1)

\* the state the caller holds, and the state of the round that differs from
\* it in the dealer's first card and the last card of the deck only
currentRound == deepCopy

variantRound ==
    LET hand == [dealerHand EXCEPT ![1] = deck[Len(deck)]]
    IN  [deck       |-> [deck EXCEPT ![Len(deck)] = dealerHand[1]],
         playerHand |-> playerHand,
         dealerHand |-> hand,
         gameState  |-> [gameState EXCEPT !.dealerScore = calculateHandScore(hand)]]

\* the round's state has just been written to the Games table
Stored ==
    \/ Returned("startNewGame")
    \/ Returned("playerStand")
    \/ Returned("playerHit") /\ gameState.isGameOver

-----------------------------------------------------------------------------
(* Properties *)

\* C1: calculateHandScore(hand) is the largest total not exceeding 21 that
\* counting each Ace as 11 or as 1 can give, and the total with every Ace
\* as 1 when there is none; A+K = 21, A+A+9 = 21, K+Q+2 = 22.
C1_ScoreIsBestTotal ==
    last.op = "calculateHandScore" =>
        /\ last.ret = BestTotal(playerHand)
        /\ RanksOf(playerHand) = <<"A", "K">> => last.ret = 21
        /\ RanksOf(playerHand) = <<"A", "A", "9">> => last.ret = 21
        /\ RanksOf(playerHand) = <<"K", "Q", "2">> => last.ret = 22

\* a hand with Aces that is bust even with every Ace counted as 1
C1_Witness ==
    /\ last.op = "calculateHandScore"
    /\ AcesIn(playerHand) >= 2
    /\ last.ret > 21

\* C2: after playerStand the status is dealer_bust if dealerScore > 21,
\* else dealer_win if dealerScore > playerScore, else player_win if
\* playerScore > dealerScore, else tie.
C2_StandOutcome ==
    Returned("playerStand") =>
        LET d == gameState.dealerScore
            p == gameState.playerScore
        IN  /\ d > 21 => gameState.gameStatus = "dealer_bust"
            /\ (d <= 21 /\ d > p) => gameState.gameStatus = "dealer_win"
            /\ (d <= 21 /\ p > d) => gameState.gameStatus = "player_win"
            /\ (d <= 21 /\ p = d) => gameState.gameStatus = "tie"

C2_Witness ==
    /\ Returned("playerStand")
    /\ gameState.gameStatus = "tie"
    /\ gameState.playerScore = gameState.dealerScore
    /\ Len(last.drawnAt) > 0

\* the dealer's hand after the first n draws of a stand
DealerHandAfter(n) == last.pre.dealerHand \o SubSeq(last.pre.deck, 1, n)

\* C3: playerStand draws for the dealer one card at a time, from the front
\* of the deck, exactly while the dealer's hand scores below 17: the hand
\* before each draw scored below 17, the final hand scores 17 or more, and a
\* dealer already at 17 or more (a soft 17 too) draws nothing.
C3_DealerDrawsBelow17 ==
    Returned("playerStand") =>
        LET n == Len(dealerHand) - Len(last.pre.dealerHand)
        IN  /\ n >= 0
            /\ n <= Len(last.pre.deck)
            /\ dealerHand = DealerHandAfter(n)
            /\ deck = SubSeq(last.pre.deck, n + 1, Len(last.pre.deck))
            /\ \A k \in 0..(n - 1) : BestTotal(DealerHandAfter(k)) < 17
            /\ BestTotal(dealerHand) >= 17
            /\ gameState.dealerScore >= 17
            /\ BestTotal(last.pre.dealerHand) >= 17 => n = 0

\* the dealer is dealt a soft 17 (Ace and 6), the player stands, the dealer
\* draws nothing
C3_Witness ==
    /\ Returned("playerStand")
    /\ last.pre.gameState.gameStatus = "active"
    /\ Len(last.pre.dealerHand) = 2
    /\ AcesIn(last.pre.dealerHand) = 1
    /\ HardTotal(last.pre.dealerHand) = 7
    /\ dealerHand = last.pre.dealerHand
    /\ gameState.dealerScore = 17

\* C4: playerHit returns isGameOver = true and status player_bust exactly
\* when the recomputed playerScore exceeds 21, and isGameOver = false and
\* status active otherwise.
C4_HitBustExactly ==
    Returned("playerHit") =>
        /\ gameState.playerScore = BestTotal(playerHand)
        /\ gameState.playerScore > 21 =>
               (gameState.isGameOver /\ gameState.gameStatus = "player_bust")
        /\ gameState.playerScore <= 21 =>
               (~gameState.isGameOver /\ gameState.gameStatus = "active")

\* a hit that takes the player from 21 or less to a bust
C4_Witness ==
    /\ Returned("playerHit")
    /\ last.pre.gameState.playerScore <= 21
    /\ gameState.playerScore > 21
    /\ gameState.gameStatus = "player_bust"

\* C5: a playerHit that returns has dealt exactly one card: the front card
\* of the deck is now the last card of the player's hand, the earlier cards
\* of the hand are as they were, the deck is the rest of the old deck.
C5_HitDealsOneCard ==
    Returned("playerHit") =>
        /\ Len(last.pre.deck) >= 1
        /\ playerHand = Append(last.pre.playerHand, last.pre.deck[1])
        /\ Len(playerHand) = Len(last.pre.playerHand) + 1
        /\ deck = Tail(last.pre.deck)
        /\ Len(deck) = Len(last.pre.deck) - 1

C5_Witness ==
    /\ Returned("playerHit")
    /\ Len(playerHand) = 4
    /\ playerHand[4] = last.pre.deck[1]
    /\ playerHand[4] # playerHand[3]

\* C6: startNewGame returns the first two cards of the shuffled deck as the
\* player's hand, the next two as the dealer's, the other 48 in order as the
\* deck, the scores of those hands, isPlayerTurn, not isGameOver, active.
C6_StartDealsFourCards ==
    Returned("startNewGame") =>
        /\ playerHand = SubSeq(last.created, 1, 2)
        /\ dealerHand = SubSeq(last.created, 3, 4)
        /\ deck = SubSeq(last.created, 5, Len(last.created))
        /\ Len(deck) = 48
        /\ gameState.playerScore = BestTotal(playerHand)
        /\ gameState.dealerScore = BestTotal(dealerHand)
        /\ gameState.isPlayerTurn
        /\ ~gameState.isGameOver
        /\ gameState.gameStatus = "active"

\* a start from a deck that the shuffle has changed, the two hands scoring
\* differently
C6_Witness ==
    /\ Returned("startNewGame")
    /\ last.created # orderedDeck
    /\ gameState.playerScore # gameState.dealerScore
    /\ Len(deck) = 48

\* C7: once isGameOver is true, no later playerHit or playerStand changes
\* isGameOver, the status, either hand or either score.
C7_TerminalAbsorbing ==
    [][(gameState.isGameOver /\ last'.op \in {"playerHit", "playerStand"}) =>
          /\ gameState' = gameState
          /\ playerHand' = playerHand
          /\ dealerHand' = dealerHand]_vars

\* C8: playerHit or playerStand on a state whose isGameOver is already true
\* is rejected with InvalidActionError and deals no card.
C8_FinishedRoundRejected ==
    (last.op \in {"playerHit", "playerStand"} /\ last.pre.gameState.isGameOver) =>
        /\ last.err = "InvalidActionError"
        /\ deck = last.pre.deck
        /\ playerHand = last.pre.playerHand
        /\ dealerHand = last.pre.dealerHand

\* C9: the deck createDeck returns has 52 cards, holds each of the 4 x 13
\* (suit, rank) pairs exactly once, and every card has the fixed value of
\* its rank.
C9_DeckIsStandard ==
    Returned("startNewGame") =>
        /\ Len(last.created) = 52
        /\ \A s \in 1..4 : \A r \in 1..13 :
               Cardinality({k \in 1..Len(last.created) :
                               /\ last.created[k].suit = suits[s]
                               /\ last.created[k].rank = ranks[r]}) = 1
        /\ \A k \in 1..Len(last.created) :
               last.created[k].value = FixedValue(last.created[k].rank)

\* a created deck whose first and last cards are not those of the ordered deck
C9_Witness ==
    /\ Returned("startNewGame")
    /\ last.created[1] # orderedDeck[1]
    /\ last.created[52] # orderedDeck[52]

\* C10: dealCards(deck, count) with count <= deck.length returns the first
\* count cards in deck order and leaves the rest in the deck: the returned
\* cards followed by the new deck are the old deck.
C10_DealTakesFront ==
    (last.op = "dealCards" /\ last.drawnAt[1] <= Len(last.pre.deck)) =>
        /\ last.ret = SubSeq(last.pre.deck, 1, last.drawnAt[1])
        /\ Len(last.ret) = last.drawnAt[1]
        /\ Len(deck) = Len(last.pre.deck) - last.drawnAt[1]
        /\ last.ret \o deck = last.pre.deck

C10_Witness ==
    /\ last.op = "dealCards"
    /\ last.drawnAt[1] = 3
    /\ Len(last.ret) = 3
    /\ Len(deck) > 0

\* C11: dealCards(deck, count) fails with InsufficientCardsError whenever
\* count exceeds the number of cards left in the deck; it never returns
\* fewer cards than asked for.
C11_DealFailsWhenShort ==
    (last.op = "dealCards" /\ last.drawnAt[1] > Len(last.pre.deck)) =>
        /\ last.err = "InsufficientCardsError"
        /\ deck = last.pre.deck

\* C12: whenever a playerHit or playerStand fails, both hands, both scores,
\* the deck and the flags are exactly as they were before the call.
C12_NoPartialMutation ==
    (last.op \in {"playerHit", "playerStand"} /\ last.err # "none") =>
        /\ deck = last.pre.deck
        /\ playerHand = last.pre.playerHand
        /\ dealerHand = last.pre.dealerHand
        /\ gameState = last.pre.gameState

\* C13: on an n-element input the loop of shuffleDeck maps the sequences of
\* choices (j in 0..i for i = n - 1 down to 1) one-to-one onto the n!
\* permutations of the input: there are n! sequences, no other sequence
\* gives the result of this one, every result is a permutation of the
\* input and the results are n! in number.
C13_ShuffleIsBijection ==
    last.op = "shuffleDeck" =>
        LET input == last.pre.deck
            n     == Len(input)
        IN  /\ Cardinality(choiceSequences(n)) = Factorial(n)
            /\ \A js \in choiceSequences(n) :
                   shuffleDeck(input, js) = last.ret => js = last.drawnAt
            /\ SameElements(last.ret, input)
            /\ Cardinality({shuffleDeck(input, js) : js \in choiceSequences(n)})
                   = Factorial(n)

\* a shuffle of four cards or more in which one iteration chose j = i and
\* another moved the first card
C13_Witness ==
    /\ last.op = "shuffleDeck"
    /\ Len(last.ret) >= 4
    /\ \E i \in 1..(Len(last.ret) - 1) : last.drawnAt[i] = i
    /\ last.ret[1] # last.pre.deck[1]

\* C14: for every choice of random indices shuffleDeck returns a sequence
\* with the same elements as its input, each as many times, and of the same
\* length, and the input array is as it was.
C14_ShufflePreservesCards ==
    last.op = "shuffleDeck" =>
        /\ Len(last.ret) = Len(last.pre.deck)
        /\ SameElements(last.ret, last.pre.deck)
        /\ SameElements(last.pre.deck, last.ret)
        /\ deck = last.pre.deck

\* a shuffle that returns another order than the input's while the input
\* array keeps its order
C14_Witness ==
    /\ last.op = "shuffleDeck"
    /\ Len(last.ret) >= 3
    /\ last.ret # last.pre.deck
    /\ deck = SubSeq(orderedDeck, 1, Len(last.ret))

\* C15 as stated: determineGameResult maps player_bust and dealer_win to
\* loss, dealer_bust and player_win to win, tie to tie and active to
\* undefined, and has no other outputs.
C15_ClassifyActiveUndefined ==
    last.op = "determineGameResult" =>
        LET status == gameState.gameStatus
        IN  /\ status \in {"player_bust", "dealer_win"} => last.ret = "loss"
            /\ status \in {"dealer_bust", "player_win"} => last.ret = "win"
            /\ status = "tie" => last.ret = "tie"
            /\ status = "active" => last.ret = "undefined"
            /\ last.ret \in {"loss", "win", "tie", "undefined"}

\* C15: determineGameResult maps player_bust and dealer_win to loss,
\* dealer_bust and player_win to win, tie to tie and active to null (no
\* result), and has no other outputs.
C15_ClassifyMapping ==
    last.op = "determineGameResult" =>
        LET status == gameState.gameStatus
        IN  /\ status \in {"player_bust", "dealer_win"} => last.ret = "loss"
            /\ status \in {"dealer_bust", "player_win"} => last.ret = "win"
            /\ status = "tie" => last.ret = "tie"
            /\ status = "active" => last.ret = "null"
            /\ last.ret \in {"loss", "win", "tie", "null"}

\* the status of a round that a hit has left active is classified
C15_Witness ==
    /\ last.op = "determineGameResult"
    /\ gameState.gameStatus = "active"
    /\ Len(playerHand) = 3
    /\ last.ret = "null"

\* C16: in every state startNewGame, playerHit or playerStand returns,
\* playerScore is calculateHandScore(playerHand) and dealerScore is
\* calculateHandScore(dealerHand) for the hands of that state.
C16_ScoresMatchHands ==
    (Returned("startNewGame") \/ Returned("playerHit") \/ Returned("playerStand")) =>
        /\ ~scoreThrows(playerHand)
        /\ ~scoreThrows(dealerHand)
        /\ gameState.playerScore = calculateHandScore(playerHand)
        /\ gameState.dealerScore = calculateHandScore(dealerHand)

\* C17: after playerHit(s) or playerStand(s) returns, s has the same
\* playerHand, dealerHand, scores and deck as before the call.
C17_SnapshotsImmutable ==
    (Returned("playerHit") \/ Returned("playerStand")) =>
        inputAfterCall = last.pre

\* C18: playerHit returns isPlayerTurn, dealerHand and dealerScore as in
\* its input, bust or not; playerStand returns playerHand and playerScore
\* as in its input and isPlayerTurn = false.
C18_HitStandFrame ==
    /\ Returned("playerHit") =>
           /\ gameState.isPlayerTurn = last.pre.gameState.isPlayerTurn
           /\ dealerHand = last.pre.dealerHand
           /\ gameState.dealerScore = last.pre.gameState.dealerScore
    /\ Returned("playerStand") =>
           /\ playerHand = last.pre.playerHand
           /\ gameState.playerScore = last.pre.gameState.playerScore
           /\ ~gameState.isPlayerTurn

\* a hit that busts the player and leaves isPlayerTurn true
C18_Witness ==
    /\ Returned("playerHit")
    /\ gameState.gameStatus = "player_bust"
    /\ last.pre.gameState.isPlayerTurn
    /\ gameState.isPlayerTurn
    /\ Len(dealerHand) = 2

\* C19: a state written to the Games table and read back with getGameById
\* has the same hands in the same order, the same playerScore and
\* dealerScore and the same status, whichever of the six statuses it has.
C19_RoundTrip ==
    Stored =>
        /\ game.exists
        /\ getGameById(game).playerHand = playerHand
        /\ getGameById(game).dealerHand = dealerHand
        /\ getGameById(game).playerScore = gameState.playerScore
        /\ getGameById(game).dealerScore = gameState.dealerScore
        /\ getGameById(game).result = gameState.gameStatus

\* C20: when the two cards dealt to the player score 21 and the player
\* stands, the round ends with a status determineGameResult maps to win.
C20_BlackjackWins ==
    (/\ Returned("playerStand")
     /\ last.pre.gameState.gameStatus = "active"
     /\ Len(playerHand) = 2
     /\ gameState.playerScore = 21) =>
        determineGameResult(gameState.gameStatus) = "win"

\* C21: in a round where playerHit is called only while isGameOver is false
\* and playerStand at most once, the deck never runs out: no call throws,
\* every hit and every dealer draw finds a card in the deck, no hand holds
\* an undefined entry, and playerStand returns with isGameOver = true.
C21_DeckNeverRunsOut ==
    /\ last.op \in {"playerHit", "playerStand"} => last.err = "none"
    /\ Returned("playerHit") => Len(last.pre.deck) >= 1
    /\ Returned("playerStand") =>
           /\ Len(last.drawnAt) <= Len(last.pre.deck)
           /\ Len(dealerHand) = Len(last.pre.dealerHand) + Len(last.drawnAt)
           /\ gameState.isGameOver
    /\ ~scoreThrows(playerHand)
    /\ ~scoreThrows(dealerHand)

\* a stand after three hits in which the dealer draws twice
C21_Witness ==
    /\ Returned("playerStand")
    /\ Len(playerHand) >= 5
    /\ Len(last.drawnAt) >= 2
    /\ gameState.isGameOver

\* C22: a GET request for the path 'history' is handled by getGameHistory,
\* not by the single-game handler.
C22_HistoryRouteReached ==
    (last.op = "route" /\ req.method = "GET" /\ req.path = <<"history">>) =>
        last.ret = "getGameHistory"

\* C23: after any hit or stand request on a game, the hands and scores
\* getGameById reads from the game's row are those of the state just
\* returned to the player, also after a hit that does not end the round.
C23_StoredIsCurrent ==
    (game.exists /\ (Returned("playerHit") \/ Returned("playerStand"))) =>
        /\ getGameById(game).playerHand = playerHand
        /\ getGameById(game).dealerHand = dealerHand
        /\ getGameById(game).playerScore = gameState.playerScore
        /\ getGameById(game).dealerScore = gameState.dealerScore

\* C24: every Game row written has result win, loss or tie, the row
\* createNewGame writes included.
C24_ResultInEnum ==
    game.exists => game.result \in {"win", "loss", "tie"}

\* C25: in every state of a round, a status of player_win, dealer_bust or
\* tie implies playerScore <= 21.
C25_BustedNeverWins ==
    gameState.gameStatus \in {"player_win", "dealer_bust", "tie"} =>
        gameState.playerScore <= 21

\* C26: in every state of a round the two hands and the deck together hold
\* each of the 52 cards exactly once and no undefined entry.
C26_CardConservation ==
    gameState.gameStatus # "none" =>
        /\ ~scoreThrows(playerHand)
        /\ ~scoreThrows(dealerHand)
        /\ Len(AllCards) = 52
        /\ {AllCards[k] : k \in 1..Len(AllCards)} = StandardCards

\* C27: after any sequence of hit and stand requests on one game,
\* total_games has grown by at most 1 and wins, losses and ties together by
\* at most 1.
C27_CountedOnce ==
    userStats.exists =>
        /\ userStats.total_games <= 1
        /\ userStats.wins + userStats.losses + userStats.ties <= 1

C29_OverIffNotActive ==
    (Returned("startNewGame") \/ Returned("playerHit") \/ Returned("playerStand")) =>
        /\ gameState.isGameOver <=> gameState.gameStatus # "active"
        /\ gameState.gameStatus = "active" => gameState.playerScore <= 21

\* a hit on a finished round that returns an active state
C29_Witness ==
    /\ Returned("playerHit")
    /\ last.pre.gameState.isGameOver
    /\ last.pre.gameState.gameStatus = "dealer_win"
    /\ gameState.gameStatus = "active"
    /\ ~gameState.isGameOver

\* C30: while the round is active, the data the client receives from new
\* game and from hit is the same in a round that differs only in the
\* dealer's first card and the order of the undealt deck.
C30_ResponseHidesDealer ==
    /\ Returned("startNewGame") =>
           clientData(currentRound) = clientData(newRound(hiddenVariant(last.created)))
    /\ (/\ Returned("playerHit")
        /\ ~gameState.isGameOver
        /\ gameState.isPlayerTurn
        /\ Len(deck) >= 1) =>
           clientData(currentRound) = clientData(variantRound)

=============================================================================
